---- MODULE Spec2Model ----
(***************************************************************************)
(* A model of the hugot batch inference pipeline: BasePipeline             *)
(* (Preprocess, Forward, Destroy, convertInputToTensors) and the token     *)
(* classification pipeline built on it (Postprocess, Aggregate,            *)
(* GroupEntities).                                                         *)
(*                                                                         *)
(* Spec      concurrent Run calls over one ready pipeline, then Destroy:   *)
(*           the timing counters, the transient tensors of Forward and the *)
(*           two native handles.                                           *)
(* SpecPre   the tokenize-and-pad computation of Preprocess.               *)
(* SpecPost  the de-flatten / gather / aggregate / group / filter          *)
(*           computation of Postprocess.                                   *)
(* SpecNew   NewTokenClassificationPipeline: options, config.json,         *)
(*           defaults, loadModel, Validate.                                *)
(* SpecGroup GroupEntities on a sequence of aggregated entities.           *)
(*                                                                         *)
(* Go values are represented as follows.  An error value is the set of the *)
(* failures it reports: nil is {}, errors.Join is set union.  A string is  *)
(* a sequence of one-character strings.  A Go slice is a 1-based sequence; *)
(* Go index j is position j + 1.                                           *)
(***************************************************************************)
EXTENDS Integers, Sequences, FiniteSets, TLC

\* ------------------------------------------------------------------ bounds
NumCallers == 2
MaxRuns == 2
MaxInputsMeta == 2
MaxElapsed == 1
MaxBatch == 2
MaxTokens == 2
MaxLogit == 1
MaxOnnxFiles == 2
MaxOutputDim == 2
MaxEntities == 4

\* ----------------------------------------------------------------- helpers
Callers == 1..NumCallers

NoError == {}

Err(op, idx) == {<<op, idx>>}

\* errors.Join(a, b): nil operands are dropped, the rest are kept together.
ErrorsJoin(a, b) == a \cup b

Range(s) == {s[i] : i \in DOMAIN s}

\* The input names the engine builds a tensor for (the cases of the switch
\* in getInputTensors); "position_ids" stands for any other declared name.
KnownInputNames == {"input_ids", "token_type_ids", "attention_mask"}
InputNames == KnownInputNames \cup {"position_ids"}

InjectiveSeqs(S, n) == {s \in [1..n -> S] : \A i, j \in 1..n : i # j => s[i] # s[j]}

\* The declared inputs of a loaded model: distinct names, in any order,
\* "input_ids" among them.
InputsMetaChoices ==
    {m \in UNION {InjectiveSeqs(InputNames, n) : n \in 1..MaxInputsMeta} :
        "input_ids" \in Range(m)}

\* The transient tensors of one Forward call: the tensor made for declared
\* input i is i, the output tensor is 0.
InputTensor(i) == i
OutputTensor == 0

VARIABLES
    InputsMeta,        \* p.InputsMeta: the declared input names, in order
    TokenizerTimings,  \* p.TokenizerTimings: [NumCalls, TotalNS]
    PipelineTimings,   \* p.PipelineTimings: [NumCalls, TotalNS]
    handles,           \* the two native handles: [tokenizer, session]
    destroyCall,       \* what the last Destroy call did and returned
    pc,                \* each caller's position in RunPipeline
    inputTensors,      \* each caller's Forward local: the input tensors
    lastForward,       \* history: the Forward call that returned last
    runsStarted,       \* history: RunPipeline calls started
    forwardReturnedOk, \* history: Forward calls that returned a nil error
    stage,             \* SpecPre, SpecPost: how far the one call followed is
    tokenizerOut,      \* what Tokenizer.EncodeWithOptions returns per input
    batch,             \* the PipelineBatch of the call followed
    options,           \* what the options given at construction set
    IdLabelMap,        \* p.IdLabelMap: class index -> label
    AggregationStrategy, \* p.AggregationStrategy
    IgnoreLabels,      \* p.IgnoreLabels
    post,              \* Postprocess of the call followed: locals, result
    construction,      \* SpecNew: the NewTokenClassificationPipeline call
    group              \* SpecGroup: the GroupEntities call followed

\* The state of the concurrent callers (Spec) and of the single call whose
\* data is followed (SpecPre, SpecPost).
callerVars == <<pc, inputTensors, lastForward, runsStarted, forwardReturnedOk,
                handles, destroyCall>>
dataVars == <<stage, tokenizerOut, batch>>
postVars == <<options, IdLabelMap, AggregationStrategy, IgnoreLabels, post,
              construction, group>>

vars == <<InputsMeta, TokenizerTimings, PipelineTimings, callerVars, dataVars,
          postVars>>

ZeroTimings == [NumCalls |-> 0, TotalNS |-> 0]

\* What a Forward call did: the tensors it created, those it called Destroy
\* on, the errors those calls returned, whether it invoked the session, the
\* way it left and the error it returned.
NoForward ==
    [caller |-> 0, inputTensors |-> <<>>, created |-> {}, destroyed |-> {},
     releaseErrors |-> NoError, sessionRun |-> FALSE,
     exit |-> "none", ret |-> NoError]

NoDestroy ==
    [called |-> FALSE, tokenizerClose |-> "not_called",
     sessionDestroy |-> "not_called", ret |-> NoError]

\* ------------------------------------------------------- configuration
\* Labels are strings: sequences of characters.
LabelO == <<"O">>
LabelP == <<"P">>
LabelBP == <<"B", "-", "P">>
LabelIP == <<"I", "-", "P">>
LabelBO == <<"B", "-", "O">>
LabelB == <<"B", "-">>
LabelEmpty == <<>>

\* id2label maps read from config.json.  Validate accepts a map whose size
\* is the output dimension; its keys need not be 0..size-1.
LabelMaps ==
    {0 :> LabelO @@ 1 :> LabelBP,
     0 :> LabelBP @@ 1 :> LabelIP,
     0 :> LabelP @@ 1 :> LabelBO,
     0 :> LabelEmpty @@ 1 :> LabelB,
     0 :> LabelO @@ 2 :> LabelIP,
     0 :> LabelP}

\* What the options of a PipelineConfig leave in the pipeline before the
\* defaults: WithSimpleAggregation, WithoutAggregation or neither;
\* WithIgnoreLabels or not.
OptionChoices ==
    [AggregationStrategy : {"", "SIMPLE", "NONE", "FIRST"},
     IgnoreLabels : {<<>>, <<LabelP>>}]

NoOptions == [AggregationStrategy |-> "", IgnoreLabels |-> <<>>]

\* NewTokenClassificationPipeline, lines 115-117.
DefaultAggregationStrategy(strategy) ==
    IF strategy = "" THEN "SIMPLE" ELSE strategy

\* NewTokenClassificationPipeline, lines 118-120.
DefaultIgnoreLabels(ignoreLabels) ==
    IF Len(ignoreLabels) = 0 THEN <<LabelO>> ELSE ignoreLabels

\* Validate has passed, so OutputDim (line 129) is the size of the label map.
OutputDim == Cardinality(DOMAIN IdLabelMap)

NoPost ==
    [called |-> FALSE, hasResult |-> FALSE, Entities |-> <<>>,
     err |-> NoError]

\* No NewTokenClassificationPipeline call is followed.
NoConstruction == [step |-> "none"]

\* No GroupEntities call is followed.
NoGroup == [called |-> FALSE, entities |-> <<>>, entityGroups |-> <<>>]

\* The pipeline NewTokenClassificationPipeline returns for `opts` and the
\* id2label map `labels`.
Configured(opts, labels) ==
    /\ options = opts
    /\ IdLabelMap = labels
    /\ AggregationStrategy = DefaultAggregationStrategy(opts.AggregationStrategy)
    /\ IgnoreLabels = DefaultIgnoreLabels(opts.IgnoreLabels)
    /\ post = NoPost
    /\ construction = NoConstruction
    /\ group = NoGroup

\* PipelineBatch before Preprocess has filled it.
NoBatch ==
    [Input |-> <<>>, IdsTensor |-> <<>>, TypeIdsTensor |-> <<>>,
     AttentionMasksTensor |-> <<>>, MaxSequence |-> 0, OutputTensor |-> <<>>]

\* A ready pipeline: both handles open, no call made yet.
ReadyPipeline ==
    /\ InputsMeta \in InputsMetaChoices
    /\ TokenizerTimings = ZeroTimings
    /\ PipelineTimings = ZeroTimings
    /\ handles = [tokenizer |-> "open", session |-> "open"]
    /\ destroyCall = NoDestroy
    /\ pc = [c \in Callers |-> "idle"]
    /\ inputTensors = [c \in Callers |-> <<>>]
    /\ lastForward = NoForward
    /\ runsStarted = 0
    /\ forwardReturnedOk = 0

Init ==
    /\ ReadyPipeline
    /\ Configured(NoOptions, 0 :> LabelO @@ 1 :> LabelBP)
    /\ stage = "off"
    /\ tokenizerOut = <<>>
    /\ batch = NoBatch

\* atomic.AddUint64(addr, delta): one indivisible read-modify-write.
AtomicAddUint64(val, delta) == val + delta

\* ------------------------------------------------------------- Preprocess
\* Preprocess, lines 261-292: take the start time and tokenize every input.
\* (The TokenizedInput values and the padded tensors are the subject of
\* SpecPre; nothing below reads them.)
PreprocessTokenize(self) ==
    /\ pc[self] = "idle"
    /\ handles = [tokenizer |-> "open", session |-> "open"]
    /\ runsStarted < MaxRuns
    /\ runsStarted' = runsStarted + 1
    /\ pc' = [pc EXCEPT ![self] = "pre_count"]
    /\ UNCHANGED <<InputsMeta, TokenizerTimings, PipelineTimings, handles,
                   destroyCall, inputTensors, lastForward,
                   forwardReturnedOk,
                   dataVars, postVars>>

\* A plain `NumCalls++` in place of the atomic add: the value stored is one
\* more than a value of the counter read earlier, so increments can be lost.
PreprocessCountCallsRacy(self) ==
    /\ pc[self] = "pre_count"
    /\ \E old \in 0..TokenizerTimings.NumCalls :
         TokenizerTimings' = [TokenizerTimings EXCEPT !.NumCalls = old + 1]
    /\ pc' = [pc EXCEPT ![self] = "pre_ns"]
    /\ UNCHANGED <<InputsMeta, PipelineTimings, handles, destroyCall,
                   inputTensors, lastForward, runsStarted, forwardReturnedOk,
                   dataVars, postVars>>

\* Preprocess, line 294.
PreprocessCountCalls(self) ==
    /\ pc[self] = "pre_count"
    /\ TokenizerTimings' =
         [TokenizerTimings EXCEPT !.NumCalls = AtomicAddUint64(@, 1)]
    /\ pc' = [pc EXCEPT ![self] = "pre_ns"]
    /\ UNCHANGED <<InputsMeta, PipelineTimings, handles, destroyCall,
                   inputTensors, lastForward, runsStarted, forwardReturnedOk,
                   dataVars, postVars>>

\* Preprocess, lines 295-297: add the elapsed time, pad, return the batch.
PreprocessCountNS(self) ==
    /\ pc[self] = "pre_ns"
    /\ \E elapsed \in 1..MaxElapsed :
         TokenizerTimings' =
           [TokenizerTimings EXCEPT !.TotalNS = AtomicAddUint64(@, elapsed)]
    /\ pc' = [pc EXCEPT ![self] = "fwd_alloc"]
    /\ UNCHANGED <<InputsMeta, PipelineTimings, handles, destroyCall,
                   inputTensors, lastForward, runsStarted,
                   forwardReturnedOk,
                   dataVars, postVars>>

\* ---------------------------------------------------------------- Forward
\* getInputTensors: one pass over the declared inputs.  allocFails[i] says
\* whether ort.NewTensor fails for input i.  A name outside the switch leaves
\* inputTensor nil and err as it was; err is overwritten by every NewTensor
\* call, so the value returned is that of the last call made.
RECURSIVE GetInputTensorsErr(_, _, _)
GetInputTensorsErr(meta, allocFails, n) ==
    IF n = 0 THEN NoError
    ELSE IF meta[n] \in KnownInputNames
         THEN (IF allocFails[n] THEN Err("NewTensor", n) ELSE NoError)
         ELSE GetInputTensorsErr(meta, allocFails, n - 1)

\* The slice returned: TRUE for a created tensor and FALSE for a nil one
\* (NewTensor failed, or the name is not one the switch knows).
GetInputTensors(meta, allocFails) ==
    [tensors |->
        [i \in 1..Len(meta) |-> meta[i] \in KnownInputNames /\ ~allocFails[i]],
     err |-> GetInputTensorsErr(meta, allocFails, Len(meta))]

CreatedInputs(tensors) ==
    {InputTensor(i) : i \in {j \in DOMAIN tensors : tensors[j]}}

\* The allocation outcomes ort.NewTensor can have for the declared inputs
\* (no call is made for a name outside the switch).
AllocOutcomes(meta) ==
    {f \in [1..Len(meta) -> BOOLEAN] :
        \A i \in 1..Len(meta) : meta[i] \notin KnownInputNames => ~f[i]}

\* The deferred loop of lines 338-342 over inputTensors, in order:
\* tensor.Destroy() on a nil *ort.Tensor dereferences nil and panics, which
\* ends the loop; every tensor before the first nil one is destroyed.
DeferredInputDestroys(tensors) ==
    LET nils == {j \in DOMAIN tensors : ~tensors[j]}
        stop == IF nils = {} THEN Len(tensors) + 1
                ELSE CHOOSE j \in nils : \A k \in nils : j <= k
    IN  {InputTensor(i) : i \in 1..(stop - 1)}

\* The error values the Destroy calls on `tensors` can produce together.
ReleaseOutcomes(tensors) ==
    {UNION {Err("Destroy", t) : t \in failed} : failed \in SUBSET tensors}

\* A return statement of a function with unnamed results fixes the returned
\* value when it executes; the deferred closures run afterwards and assign
\* only the local variable err.
ReturnValue(atReturn, errAfterDefers) == atReturn

ForwardRecord(self, tensors, created, destroyed, rel, ran, exit, ret) ==
    [caller |-> self, inputTensors |-> tensors, created |-> created,
     destroyed |-> destroyed, releaseErrors |-> rel, sessionRun |-> ran,
     exit |-> exit, ret |-> ret]

\* Forward, lines 324-342: allocate the input tensors and the output tensor.
ForwardAlloc(self) ==
    /\ pc[self] = "fwd_alloc"
    /\ \E allocFails \in AllocOutcomes(InputsMeta), outFails \in BOOLEAN :
         LET got == GetInputTensors(InputsMeta, allocFails)
             created == CreatedInputs(got.tensors)
         IN  IF got.err # NoError
             THEN /\ lastForward' = ForwardRecord(self, got.tensors, created,
                        {}, NoError, FALSE, "input_alloc_error", got.err)
                  /\ pc' = [pc EXCEPT ![self] = "fwd_returned"]
                  /\ UNCHANGED inputTensors
             ELSE IF outFails
             THEN /\ lastForward' = ForwardRecord(self, got.tensors, created,
                        {}, NoError, FALSE, "output_alloc_error",
                        Err("NewEmptyTensor", 0))
                  /\ pc' = [pc EXCEPT ![self] = "fwd_returned"]
                  /\ UNCHANGED inputTensors
             ELSE /\ inputTensors' = [inputTensors EXCEPT ![self] = got.tensors]
                  /\ pc' = [pc EXCEPT ![self] = "fwd_run"]
                  /\ UNCHANGED lastForward
    /\ UNCHANGED <<InputsMeta, TokenizerTimings, PipelineTimings, handles,
                   destroyCall, runsStarted,
                   forwardReturnedOk,
                   dataVars, postVars>>

\* Forward with the call counted before errOnnx is examined.
ForwardRunCountsFailures(self) ==
    /\ pc[self] = "fwd_run"
    /\ LET tensors == inputTensors[self]
           created == CreatedInputs(tensors) \cup {OutputTensor}
           toDestroy == DeferredInputDestroys(tensors)
       IN  IF \E i \in DOMAIN tensors : ~tensors[i]
           THEN /\ \E rel \in ReleaseOutcomes(toDestroy) :
                     lastForward' = ForwardRecord(self, tensors, created,
                        toDestroy, rel, FALSE, "panic", NoError)
                /\ pc' = [pc EXCEPT ![self] = "panicked"]
                /\ inputTensors' = [inputTensors EXCEPT ![self] = <<>>]
                /\ UNCHANGED PipelineTimings
           ELSE \/ /\ \E rel \in ReleaseOutcomes(toDestroy) :
                        lastForward' = ForwardRecord(self, tensors, created,
                           toDestroy, rel, TRUE, "run_error",
                           ReturnValue(Err("Run", 0), ErrorsJoin(NoError, rel)))
                   /\ PipelineTimings' =
                        [PipelineTimings EXCEPT !.NumCalls = AtomicAddUint64(@, 1)]
                   /\ pc' = [pc EXCEPT ![self] = "fwd_returned"]
                   /\ inputTensors' = [inputTensors EXCEPT ![self] = <<>>]
                \/ /\ pc' = [pc EXCEPT ![self] = "fwd_count"]
                   /\ UNCHANGED <<inputTensors, lastForward, PipelineTimings>>
    /\ UNCHANGED <<InputsMeta, TokenizerTimings, handles, destroyCall,
                   runsStarted, forwardReturnedOk,
                   dataVars, postVars>>

\* Forward, lines 345-348: run the session; on failure return errOnnx, after
\* which the deferred loop over the input tensors runs.  Session.Run reads
\* every input tensor's internals, so a nil input tensor panics there.
ForwardRun(self) ==
    /\ pc[self] = "fwd_run"
    /\ LET tensors == inputTensors[self]
           created == CreatedInputs(tensors) \cup {OutputTensor}
           toDestroy == DeferredInputDestroys(tensors)
       IN  IF \E i \in DOMAIN tensors : ~tensors[i]
           THEN /\ \E rel \in ReleaseOutcomes(toDestroy) :
                     lastForward' = ForwardRecord(self, tensors, created,
                        toDestroy, rel, FALSE, "panic", NoError)
                /\ pc' = [pc EXCEPT ![self] = "panicked"]
                /\ inputTensors' = [inputTensors EXCEPT ![self] = <<>>]
           ELSE \/ /\ \E rel \in ReleaseOutcomes(toDestroy) :
                        lastForward' = ForwardRecord(self, tensors, created,
                           toDestroy, rel, TRUE, "run_error",
                           ReturnValue(Err("Run", 0), ErrorsJoin(NoError, rel)))
                   /\ pc' = [pc EXCEPT ![self] = "fwd_returned"]
                   /\ inputTensors' = [inputTensors EXCEPT ![self] = <<>>]
                \/ /\ pc' = [pc EXCEPT ![self] = "fwd_count"]
                   /\ UNCHANGED <<inputTensors, lastForward>>
    /\ UNCHANGED <<InputsMeta, TokenizerTimings, PipelineTimings, handles,
                   destroyCall, runsStarted,
                   forwardReturnedOk,
                   dataVars, postVars>>

\* Forward, line 354.
ForwardCountCalls(self) ==
    /\ pc[self] = "fwd_count"
    /\ PipelineTimings' =
         [PipelineTimings EXCEPT !.NumCalls = AtomicAddUint64(@, 1)]
    /\ pc' = [pc EXCEPT ![self] = "fwd_ns"]
    /\ UNCHANGED <<InputsMeta, TokenizerTimings, handles, destroyCall,
                   inputTensors, lastForward, runsStarted,
                   forwardReturnedOk,
                   dataVars, postVars>>

\* Forward, lines 355-356 and the two deferred closures (350-352, then
\* 338-342): add the elapsed time, `return batch, err` with err still nil,
\* then the output tensor and the input tensors are destroyed.
ForwardReturn(self) ==
    /\ pc[self] = "fwd_ns"
    /\ \E elapsed \in 1..MaxElapsed :
         PipelineTimings' =
           [PipelineTimings EXCEPT !.TotalNS = AtomicAddUint64(@, elapsed)]
    /\ LET tensors == inputTensors[self]
           created == CreatedInputs(tensors) \cup {OutputTensor}
           toDestroy == {OutputTensor} \cup DeferredInputDestroys(tensors)
       IN  \E rel \in ReleaseOutcomes(toDestroy) :
             LET ret == ReturnValue(NoError, ErrorsJoin(NoError, rel))
             IN  /\ lastForward' = ForwardRecord(self, tensors, created,
                        toDestroy, rel, TRUE, "success", ret)
                 /\ forwardReturnedOk' =
                       forwardReturnedOk + (IF ret = NoError THEN 1 ELSE 0)
    /\ pc' = [pc EXCEPT ![self] = "fwd_returned"]
    /\ inputTensors' = [inputTensors EXCEPT ![self] = <<>>]
    /\ UNCHANGED <<InputsMeta, TokenizerTimings, handles, destroyCall,
                   runsStarted,
                   dataVars, postVars>>

\* RunPipeline, lines 366-369: return the Forward error, or go on to
\* Postprocess (the subject of SpecPost) and return its result.
RunPipelineReturn(self) ==
    /\ pc[self] = "fwd_returned"
    /\ pc' = [pc EXCEPT ![self] = "idle"]
    /\ lastForward' = IF lastForward.caller = self THEN NoForward
                      ELSE lastForward
    /\ UNCHANGED <<InputsMeta, TokenizerTimings, PipelineTimings, handles,
                   destroyCall, inputTensors, runsStarted,
                   forwardReturnedOk,
                   dataVars, postVars>>

\* ---------------------------------------------------------------- Destroy
\* BasePipeline.Destroy, lines 246-257: finalErr is assigned the tokenizer's
\* error and then, when the session's is not nil, the session's.
DestroyFinalErr(errTokenizer, ortError) ==
    IF ortError # NoError THEN ortError ELSE errTokenizer

\* Destroy returning as soon as the tokenizer fails to close.
DestroyShortCircuit ==
    /\ handles = [tokenizer |-> "open", session |-> "open"]
    /\ \A c \in Callers : pc[c] \in {"idle", "panicked"}
    /\ \E closeFails \in BOOLEAN, destroyFails \in BOOLEAN :
         LET errTokenizer == IF closeFails THEN Err("Tokenizer.Close", 0)
                             ELSE NoError
             ortError == IF destroyFails THEN Err("OrtSession.Destroy", 0)
                         ELSE NoError
         IN  IF closeFails
             THEN /\ handles' = [handles EXCEPT !.tokenizer = "close_failed"]
                  /\ destroyCall' =
                        [called |-> TRUE, tokenizerClose |-> "failed",
                         sessionDestroy |-> "not_called", ret |-> errTokenizer]
             ELSE /\ handles' =
                        [tokenizer |-> "closed",
                         session |-> IF destroyFails THEN "close_failed"
                                     ELSE "closed"]
                  /\ destroyCall' =
                        [called |-> TRUE, tokenizerClose |-> "ok",
                         sessionDestroy |-> IF destroyFails THEN "failed"
                                            ELSE "ok",
                         ret |-> ortError]
    /\ UNCHANGED <<InputsMeta, TokenizerTimings, PipelineTimings, pc,
                   inputTensors, lastForward, runsStarted, forwardReturnedOk,
                   dataVars, postVars>>

Destroy ==
    /\ handles = [tokenizer |-> "open", session |-> "open"]
    /\ \A c \in Callers : pc[c] \in {"idle", "panicked"}
    /\ \E closeFails \in BOOLEAN, destroyFails \in BOOLEAN :
         LET errTokenizer == IF closeFails THEN Err("Tokenizer.Close", 0)
                             ELSE NoError
             ortError == IF destroyFails THEN Err("OrtSession.Destroy", 0)
                         ELSE NoError
         IN  /\ handles' =
                   [tokenizer |-> IF closeFails THEN "close_failed" ELSE "closed",
                    session |-> IF destroyFails THEN "close_failed" ELSE "closed"]
             /\ destroyCall' =
                   [called |-> TRUE,
                    tokenizerClose |-> IF closeFails THEN "failed" ELSE "ok",
                    sessionDestroy |-> IF destroyFails THEN "failed" ELSE "ok",
                    ret |-> DestroyFinalErr(errTokenizer, ortError)]
    /\ UNCHANGED <<InputsMeta, TokenizerTimings, PipelineTimings, pc,
                   inputTensors, lastForward, runsStarted,
                   forwardReturnedOk,
                   dataVars, postVars>>

Next ==
    \/ \E self \in Callers : PreprocessTokenize(self)
    \/ \E self \in Callers : PreprocessCountCalls(self)
    \/ \E self \in Callers : PreprocessCountNS(self)
    \/ \E self \in Callers : ForwardAlloc(self)
    \/ \E self \in Callers : ForwardRun(self)
    \/ \E self \in Callers : ForwardCountCalls(self)
    \/ \E self \in Callers : ForwardReturn(self)
    \/ \E self \in Callers : RunPipelineReturn(self)
    \/ Destroy

Spec == Init /\ [][Next]_vars

\* ======================================================= Preprocess data
Max(S) == CHOOSE x \in S : \A y \in S : y <= x

\* Set by loadModel (lines 218-226) from the declared input names.
hasTokenTypeIds == "token_type_ids" \in Range(InputsMeta)
hasAttentionMask == "attention_mask" \in Range(InputsMeta)

\* What Tokenizer.EncodeWithOptions returns for one input under the options
\* set at construction (tokens, type ids, attention mask, special tokens mask,
\* offsets): all slices have the length of IDs, and Offsets are [start, end)
\* positions in the raw input.
Encoding(raw, tokens, ids, typeIds, mask, special, offsets) ==
    [Raw |-> raw, Tokens |-> tokens, IDs |-> ids, TypeIDs |-> typeIds,
     AttentionMask |-> mask, SpecialTokensMask |-> special,
     Offsets |-> offsets]

\* Attention masks a tokenizer produces for n tokens: ones for the tokens of
\* the text, zeros for the padding it adds on the right or on the left.
PaddedMasks(n) ==
    {[j \in 1..n |-> IF j <= k THEN 1 ELSE 0] : k \in 0..n}
    \cup {[j \in 1..n |-> IF j <= k THEN 0 ELSE 1] : k \in 0..n}

\* The vocabulary of the tokenizer: a token id is a piece of text, and an
\* even id is a piece that continues a word, written with "##" in front.
IsContinuation(id) == id % 2 = 0
Piece(id) == IF IsContinuation(id) THEN <<"x">> ELSE <<"w">>
TokenString(id) == IF IsContinuation(id) THEN <<"#", "#">> \o Piece(id)
                   ELSE Piece(id)

\* An encoding of n tokens: token j has id j and is one character of the raw
\* input; every token has type id `typeId`.
PlainEncoding(n, typeId, mask, special) ==
    Encoding([j \in 1..n |-> Piece(j)[1]],
             [j \in 1..n |-> TokenString(j)],
             [j \in 1..n |-> j],
             [j \in 1..n |-> typeId],
             mask, special,
             [j \in 1..n |-> <<j - 1, j>>])

TypeIdValues == {0, 1}

PreEncodings ==
    UNION {{PlainEncoding(n, t, m, [j \in 1..n |-> 0]) :
              t \in TypeIdValues, m \in PaddedMasks(n)} : n \in 0..MaxTokens}

BatchesOf(encodings, sizes) == UNION {[1..n -> encodings] : n \in sizes}

\* An index past every token: the loop of lines 273-277 assigns j whatever
\* the mask value is.
RECURSIVE MaxAttentionIndexAnyValue(_, _, _)
MaxAttentionIndexAnyValue(mask, j, maxAttentionIndex) ==
    IF j >= Len(mask) THEN maxAttentionIndex
    ELSE MaxAttentionIndexAnyValue(mask, j + 1, j)

\* Preprocess, lines 272-277: the loop over output.AttentionMask, j from 0,
\* starting with maxAttentionIndex = 0.
RECURSIVE MaxAttentionIndex(_, _, _)
MaxAttentionIndex(mask, j, maxAttentionIndex) ==
    IF j >= Len(mask) THEN maxAttentionIndex
    ELSE MaxAttentionIndex(mask, j + 1,
            IF mask[j + 1] # 0 THEN j ELSE maxAttentionIndex)

\* Preprocess, lines 279-288.
TokenizedInput(output) ==
    [Raw |-> output.Raw,
     Tokens |-> output.Tokens,
     TokenIds |-> output.IDs,
     TypeIds |-> output.TypeIDs,
     AttentionMask |-> output.AttentionMask,
     MaxAttentionIndex |-> MaxAttentionIndex(output.AttentionMask, 0, 0),
     SpecialTokensMask |-> output.SpecialTokensMask,
     Offsets |-> output.Offsets]

\* Preprocess, lines 264-292: maxSequence after the first i inputs.
RECURSIVE PreprocessMaxSequence(_, _)
PreprocessMaxSequence(outputs, i) ==
    IF i = 0 THEN 0
    ELSE LET maxSequence == PreprocessMaxSequence(outputs, i - 1)
         IN  IF outputs[i].MaxAttentionIndex > maxSequence
             THEN outputs[i].MaxAttentionIndex
             ELSE maxSequence

\* A row that drops the last token of the input (`j+1 < length`).
PadRowShort(values, length, maxSequence, copied) ==
    [j \in 1..maxSequence |->
        IF j < length /\ copied THEN values[j] ELSE 0]

\* convertInputToTensors, lines 370-386, for one input and one tensor: the
\* row of maxSequence values.  Go's j runs from 0 and copies when
\* j+1 <= length; a tensor that is not `copied` keeps the zero of make().
PadRow(values, length, maxSequence, copied) ==
    [j \in 1..maxSequence |->
        IF j <= length /\ copied THEN values[j] ELSE 0]

\* The rows laid one after the other, as counter++ lays them.
RECURSIVE FlattenRows(_)
FlattenRows(rows) ==
    IF rows = <<>> THEN <<>>
    ELSE rows[1] \o FlattenRows(Tail(rows))

\* convertInputToTensors, lines 360-395.
convertInputToTensors(inputs, maxSequence) ==
    [Input |-> inputs,
     IdsTensor |-> FlattenRows(
        [i \in DOMAIN inputs |->
            PadRow(inputs[i].TokenIds, Len(inputs[i].TokenIds),
                   maxSequence, TRUE)]),
     TypeIdsTensor |-> FlattenRows(
        [i \in DOMAIN inputs |->
            PadRow(inputs[i].TypeIds, Len(inputs[i].TokenIds),
                   maxSequence, hasTokenTypeIds)]),
     AttentionMasksTensor |-> FlattenRows(
        [i \in DOMAIN inputs |->
            PadRow(inputs[i].AttentionMask, Len(inputs[i].TokenIds),
                   maxSequence, hasAttentionMask)]),
     MaxSequence |-> maxSequence,
     OutputTensor |-> <<>>]

\* Preprocess, lines 260-298, as a function of what the tokenizer returns
\* for the inputs.
Preprocess(encodings) ==
    LET outputs == [i \in DOMAIN encodings |-> TokenizedInput(encodings[i])]
        maxSequence == PreprocessMaxSequence(outputs, Len(outputs))
    IN  convertInputToTensors(outputs, maxSequence + 1)

\* One whole Preprocess call, counters included.
PreprocessBatch ==
    /\ stage = "inputs"
    /\ batch' = Preprocess(tokenizerOut)
    /\ \E elapsed \in 1..MaxElapsed :
         TokenizerTimings' =
           [NumCalls |-> AtomicAddUint64(TokenizerTimings.NumCalls, 1),
            TotalNS |-> AtomicAddUint64(TokenizerTimings.TotalNS, elapsed)]
    /\ stage' = "preprocessed"
    /\ UNCHANGED <<InputsMeta, PipelineTimings, callerVars, tokenizerOut, postVars>>

InitPre ==
    /\ ReadyPipeline
    /\ Configured(NoOptions, 0 :> LabelO @@ 1 :> LabelBP)
    /\ stage = "inputs"
    /\ tokenizerOut \in BatchesOf(PreEncodings, 0..MaxBatch)
    /\ batch = NoBatch

NextPre == PreprocessBatch

SpecPre == InitPre /\ [][NextPre]_vars

\* ------------------------------------------------------------ Postprocess
\* Strings are sequences of characters.
HasPrefix(s, prefix) ==
    /\ Len(s) >= Len(prefix)
    /\ SubSeq(s, 1, Len(prefix)) = prefix

\* strings.Split(s, sep) for a one-character sep: the pieces between the
\* separators, one piece (s itself) when there is none.
RECURSIVE Split(_, _)
Split(s, sep) ==
    IF \A k \in DOMAIN s : s[k] # sep THEN <<s>>
    ELSE LET first == CHOOSE k \in DOMAIN s :
                        /\ s[k] = sep
                        /\ \A m \in 1..(k - 1) : s[m] # sep
         IN  <<SubSeq(s, 1, first - 1)>>
                \o Split(SubSeq(s, first + 1, Len(s)), sep)

\* strings.Join(elems, sep).
RECURSIVE Join(_, _)
Join(elems, sep) ==
    IF Len(elems) = 0 THEN <<>>
    ELSE IF Len(elems) = 1 THEN elems[1]
    ELSE elems[1] \o sep \o Join(Tail(elems), sep)

\* A float32 score is a fraction <<numerator, denominator>>.
Greater(a, b) == a[1] * b[2] > b[1] * a[2]

RECURSIVE Pow2(_)
Pow2(n) == IF n = 0 THEN 1 ELSE 2 * Pow2(n - 1)

RECURSIVE SumSeq(_)
SumSeq(s) == IF s = <<>> THEN 0 ELSE s[1] + SumSeq(Tail(s))

\* util.SoftMax: the vector of exponentials, each over their sum (base 2
\* keeps the values rational).
SoftMax(vector) ==
    LET exps == [i \in DOMAIN vector |-> Pow2(vector[i])]
    IN  [i \in DOMAIN vector |-> <<exps[i], SumSeq(exps)>>]

\* util.ArgMax: the index, from 0, of the first maximum and its value; an
\* error for an empty vector.
ArgMax(scores) ==
    IF Len(scores) = 0
    THEN [index |-> 0, score |-> <<0, 1>>, err |-> Err("ArgMax", 0)]
    ELSE LET first == CHOOSE i \in DOMAIN scores :
                        /\ \A k \in DOMAIN scores : ~Greater(scores[k], scores[i])
                        /\ \A k \in 1..(i - 1) : Greater(scores[i], scores[k])
         IN  [index |-> first - 1, score |-> scores[first], err |-> NoError]

\* util.Mean: the sum of the scores over their number.
RECURSIVE SumScores(_)
SumScores(scores) ==
    IF scores = <<>> THEN <<0, 1>>
    ELSE LET rest == SumScores(Tail(scores))
         IN  <<scores[1][1] * rest[2] + rest[1] * scores[1][2],
               scores[1][2] * rest[2]>>

Mean(scores) ==
    LET sum == SumScores(scores) IN <<sum[1], sum[2] * Len(scores)>>

\* Tokenizer.Decode(tokens, false): the pieces of the token ids, a
\* continuation piece joined to what precedes it without its "##" and any
\* other piece after a space.
Decode(tokens) ==
    Join([k \in DOMAIN tokens |->
            IF IsContinuation(tokens[k]) \/ k = 1 THEN Piece(tokens[k])
            ELSE <<" ">> \o Piece(tokens[k])],
         <<>>)

\* The Entity struct, lines 32-42.
Entity(entity, score, scores, index, word, tokenId, start, end, isSubword) ==
    [Entity |-> entity, Score |-> score, Scores |-> scores, Index |-> index,
     Word |-> word, TokenId |-> tokenId, Start |-> start, End |-> end,
     IsSubword |-> isSubword]

\* The loop body with `tokenCounter+1 < len(inputTokens)`: the vector of an
\* input's last token is discarded with the padding.
DeflattenStepDropLast(b, st, result) ==
    LET tokenVector ==
            [st.tokenVector EXCEPT ![st.tokenVectorCounter + 1] = result]
        zeros == [k \in 1..OutputDim |-> 0]
    IN  IF st.tokenVectorCounter = OutputDim - 1
        THEN LET inputVectors ==
                     IF st.tokenCounter + 1 < Len(st.inputTokens)
                     THEN Append(st.inputVectors, SoftMax(tokenVector))
                     ELSE st.inputVectors
             IN  IF st.tokenCounter = b.MaxSequence - 1
                 THEN [st EXCEPT
                         !.outputs = [st.outputs EXCEPT
                                        ![st.inputCounter + 1] = inputVectors],
                         !.inputVectors = <<>>,
                         !.inputTokens =
                            IF st.inputCounter + 1 < Len(b.Input)
                            THEN b.Input[st.inputCounter + 2].TokenIds
                            ELSE st.inputTokens,
                         !.tokenVector = zeros,
                         !.tokenVectorCounter = 0,
                         !.tokenCounter = 0,
                         !.inputCounter = @ + 1]
                 ELSE [st EXCEPT !.inputVectors = inputVectors,
                                 !.tokenVector = zeros,
                                 !.tokenVectorCounter = 0,
                                 !.tokenCounter = @ + 1]
        ELSE [st EXCEPT !.tokenVector = tokenVector,
                        !.tokenVectorCounter = @ + 1]

\* One step of the loop of lines 168-193 for the value `result`.
DeflattenStep(b, st, result) ==
    LET tokenVector ==
            [st.tokenVector EXCEPT ![st.tokenVectorCounter + 1] = result]
        zeros == [k \in 1..OutputDim |-> 0]
    IN  IF st.tokenVectorCounter = OutputDim - 1
        THEN LET inputVectors ==
                     IF st.tokenCounter < Len(st.inputTokens)
                     THEN Append(st.inputVectors, SoftMax(tokenVector))
                     ELSE st.inputVectors
             IN  IF st.tokenCounter = b.MaxSequence - 1
                 THEN [outputs |-> [st.outputs EXCEPT
                                       ![st.inputCounter + 1] = inputVectors],
                       inputVectors |-> <<>>,
                       tokenVector |-> zeros,
                       inputTokens |->
                          IF st.inputCounter + 1 < Len(b.Input)
                          THEN b.Input[st.inputCounter + 2].TokenIds
                          ELSE st.inputTokens,
                       tokenVectorCounter |-> 0,
                       tokenCounter |-> 0,
                       inputCounter |-> st.inputCounter + 1]
                 ELSE [st EXCEPT !.inputVectors = inputVectors,
                                 !.tokenVector = zeros,
                                 !.tokenVectorCounter = 0,
                                 !.tokenCounter = @ + 1]
        ELSE [st EXCEPT !.tokenVector = tokenVector,
                        !.tokenVectorCounter = @ + 1]

\* Postprocess, lines 156-193: the loop over batch.OutputTensor from its
\* k-th value on; the value is `outputs`.
RECURSIVE Deflatten(_, _, _)
Deflatten(b, k, st) ==
    IF k > Len(b.OutputTensor) THEN st.outputs
    ELSE Deflatten(b, k + 1, DeflattenStep(b, st, b.OutputTensor[k]))

\* Postprocess, lines 156-163: the locals before the loop.
DeflattenStart(b) ==
    [outputs |-> [i \in DOMAIN b.Input |-> <<>>],
     inputVectors |-> <<>>,
     tokenVector |-> [k \in 1..OutputDim |-> 0],
     inputTokens |-> b.Input[1].TokenIds,
     tokenVectorCounter |-> 0,
     tokenCounter |-> 0,
     inputCounter |-> 0]

\* GatherPreEntities without the test of the special tokens mask.
RECURSIVE GatherPreEntitiesUpToKeepSpecial(_, _, _)
GatherPreEntitiesUpToKeepSpecial(input, output, n) ==
    IF n = 0 THEN <<>>
    ELSE LET before == GatherPreEntitiesUpToKeepSpecial(input, output, n - 1)
             word == input.Tokens[n]
             startInd == input.Offsets[n][1]
             endInd == input.Offsets[n][2]
             wordRef == SubSeq(input.Raw, startInd + 1, endInd)
         IN  Append(before,
                Entity(<<>>, <<0, 1>>, output[n], n - 1, word,
                       input.TokenIds[n], startInd, endInd,
                       Len(word) # Len(wordRef)))

\* GatherPreEntities, lines 219-251, for the first n vectors of `output`
\* (Go's j is n - 1).
RECURSIVE GatherPreEntitiesUpTo(_, _, _)
GatherPreEntitiesUpTo(input, output, n) ==
    IF n = 0 THEN <<>>
    ELSE LET before == GatherPreEntitiesUpTo(input, output, n - 1)
             word == input.Tokens[n]
             startInd == input.Offsets[n][1]
             endInd == input.Offsets[n][2]
             wordRef == SubSeq(input.Raw, startInd + 1, endInd)
         IN  IF input.SpecialTokensMask[n] > 0 THEN before
             ELSE Append(before,
                    Entity(<<>>, <<0, 1>>, output[n], n - 1, word,
                           input.TokenIds[n], startInd, endInd,
                           Len(word) # Len(wordRef)))

GatherPreEntities(input, output) ==
    GatherPreEntitiesUpTo(input, output, Len(output))

\* getTag, lines 284-299.
getTag(entityName) ==
    IF HasPrefix(entityName, <<"B", "-">>)
    THEN [bi |-> "B", tag |-> SubSeq(entityName, 3, Len(entityName))]
    ELSE IF HasPrefix(entityName, <<"I", "-">>)
    THEN [bi |-> "I", tag |-> SubSeq(entityName, 3, Len(entityName))]
    ELSE [bi |-> "I", tag |-> entityName]

\* groupSubEntities with the word made of the members' token strings.
groupSubEntitiesConcatWords(entities) ==
    LET splits == Split(entities[1].Entity, "-")
        entityType == IF Len(splits) = 1 THEN splits[1]
                      ELSE Join(Tail(splits), <<"-">>)
        scores == [i \in DOMAIN entities |-> entities[i].Score]
    IN  Entity(entityType, Mean(scores), <<>>, 0,
               Join([i \in DOMAIN entities |-> entities[i].Word], <<>>), 0,
               entities[1].Start, entities[Len(entities)].End, FALSE)

\* groupSubEntities, lines 301-327.
groupSubEntities(entities) ==
    LET splits == Split(entities[1].Entity, "-")
        entityType == IF Len(splits) = 1 THEN splits[1]
                      ELSE Join(Tail(splits), <<"-">>)
        scores == [i \in DOMAIN entities |-> entities[i].Score]
        tokens == [i \in DOMAIN entities |-> entities[i].TokenId]
    IN  Entity(entityType, Mean(scores), <<>>, 0, Decode(tokens), 0,
               entities[1].Start, entities[Len(entities)].End, FALSE)

\* The loop with `tag == lastTag` as the whole condition of line 342.
RECURSIVE GroupEntitiesFromSameTag(_, _, _, _)
GroupEntitiesFromSameTag(entities, k, entityGroups, currentGroupDisagg) ==
    IF k > Len(entities)
    THEN [entityGroups |-> entityGroups,
          currentGroupDisagg |-> currentGroupDisagg]
    ELSE LET e == entities[k]
             this == getTag(e.Entity)
             last == getTag(
                 currentGroupDisagg[Len(currentGroupDisagg)].Entity)
         IN  IF Len(currentGroupDisagg) = 0
             THEN GroupEntitiesFromSameTag(entities, k + 1, entityGroups,
                                           <<e>>)
             ELSE IF this.tag = last.tag
             THEN GroupEntitiesFromSameTag(entities, k + 1, entityGroups,
                                           Append(currentGroupDisagg, e))
             ELSE GroupEntitiesFromSameTag(entities, k + 1,
                    Append(entityGroups,
                           groupSubEntities(currentGroupDisagg)),
                    <<e>>)

\* GroupEntities, lines 334-349: the loop from the k-th entity on.
RECURSIVE GroupEntitiesFrom(_, _, _, _)
GroupEntitiesFrom(entities, k, entityGroups, currentGroupDisagg) ==
    IF k > Len(entities)
    THEN [entityGroups |-> entityGroups,
          currentGroupDisagg |-> currentGroupDisagg]
    ELSE LET e == entities[k]
             this == getTag(e.Entity)
             last == getTag(
                 currentGroupDisagg[Len(currentGroupDisagg)].Entity)
         IN  IF Len(currentGroupDisagg) = 0
             THEN GroupEntitiesFrom(entities, k + 1, entityGroups, <<e>>)
             ELSE IF this.tag = last.tag /\ this.bi # "B"
             THEN GroupEntitiesFrom(entities, k + 1, entityGroups,
                                    Append(currentGroupDisagg, e))
             ELSE GroupEntitiesFrom(entities, k + 1,
                    Append(entityGroups,
                           groupSubEntities(currentGroupDisagg)),
                    <<e>>)

\* GroupEntities without lines 351-354: the group open at the end of the
\* loop is not emitted.
GroupEntitiesDropLast(entities) ==
    GroupEntitiesFrom(entities, 1, <<>>, <<>>).entityGroups

\* GroupEntities, lines 330-356 (its error is always nil).
GroupEntities(entities) ==
    LET loop == GroupEntitiesFrom(entities, 1, <<>>, <<>>)
    IN  IF Len(loop.currentGroupDisagg) > 0
        THEN Append(loop.entityGroups,
                    groupSubEntities(loop.currentGroupDisagg))
        ELSE loop.entityGroups

LookupError(raw, entityIdx) ==
    {<<"could not determine entity type", <<raw, entityIdx>>>>}

\* Aggregate, lines 256-274: the loop over the first n pre-entities.
RECURSIVE AggregateUpTo(_, _, _)
AggregateUpTo(input, preEntities, n) ==
    IF n = 0 THEN [entities |-> <<>>, err |-> NoError]
    ELSE LET before == AggregateUpTo(input, preEntities, n - 1)
             preEntity == preEntities[n]
             max == ArgMax(preEntity.Scores)
         IN  IF before.err # NoError THEN before
             ELSE IF max.err # NoError
             THEN [entities |-> <<>>, err |-> max.err]
             ELSE IF max.index \notin DOMAIN IdLabelMap
             THEN [entities |-> <<>>,
                   err |-> LookupError(input.Raw, max.index)]
             ELSE [entities |->
                      Append(before.entities,
                         Entity(IdLabelMap[max.index], max.score, <<>>,
                                preEntity.Index, preEntity.Word,
                                preEntity.TokenId, preEntity.Start,
                                preEntity.End, FALSE)),
                   err |-> NoError]

\* Aggregate with `ok` ignored: a missing index gives the zero label.
AggregateDefaultLabel(input, preEntities) ==
    LET labelled ==
            [n \in DOMAIN preEntities |->
                LET max == ArgMax(preEntities[n].Scores)
                IN  Entity(IF max.index \in DOMAIN IdLabelMap
                           THEN IdLabelMap[max.index] ELSE <<>>,
                           max.score, <<>>, preEntities[n].Index,
                           preEntities[n].Word, preEntities[n].TokenId,
                           preEntities[n].Start, preEntities[n].End, FALSE)]
    IN  IF AggregationStrategy \notin {"SIMPLE", "NONE"}
        THEN [entities |-> <<>>,
              err |-> Err("aggregation strategy not implemented", 0)]
        ELSE IF AggregationStrategy = "NONE"
        THEN [entities |-> labelled, err |-> NoError]
        ELSE [entities |-> GroupEntities(labelled), err |-> NoError]

\* Aggregate, lines 253-282.
Aggregate(input, preEntities) ==
    LET loop == AggregateUpTo(input, preEntities, Len(preEntities))
    IN  IF AggregationStrategy \notin {"SIMPLE", "NONE"}
        THEN [entities |-> <<>>,
              err |-> Err("aggregation strategy not implemented", 0)]
        ELSE IF loop.err # NoError THEN loop
        ELSE IF AggregationStrategy = "NONE" THEN loop
        ELSE [entities |-> GroupEntities(loop.entities), err |-> NoError]

\* The filter without the test for the empty label.
FilterEntitiesKeepEmpty(entities) ==
    SelectSeq(entities, LAMBDA e : e.Entity \notin Range(IgnoreLabels))

\* Postprocess, lines 206-212.
FilterEntities(entities) ==
    SelectSeq(entities,
        LAMBDA e : e.Entity \notin Range(IgnoreLabels) /\ e.Entity # <<>>)

\* The loop with `append(classificationOutput.Entities, filteredEntities)`
\* on the slice made with len(batch.Input) elements.
RECURSIVE PostprocessFromAppend(_, _, _, _)
PostprocessFromAppend(b, outputs, i, Entities) ==
    IF i > Len(b.Input)
    THEN [called |-> TRUE, hasResult |-> TRUE, Entities |-> Entities,
          err |-> NoError]
    ELSE LET preEntities == GatherPreEntities(b.Input[i], outputs[i])
             aggregated == Aggregate(b.Input[i], preEntities)
         IN  IF aggregated.err # NoError
             THEN [called |-> TRUE, hasResult |-> FALSE, Entities |-> <<>>,
                   err |-> aggregated.err]
             ELSE PostprocessFromAppend(b, outputs, i + 1,
                    Append(Entities, FilterEntities(aggregated.entities)))

\* Postprocess, lines 200-215: the loop from input i on; Entities holds the
\* lists of the inputs before i.
RECURSIVE PostprocessFrom(_, _, _, _)
PostprocessFrom(b, outputs, i, Entities) ==
    IF i > Len(b.Input)
    THEN [called |-> TRUE, hasResult |-> TRUE, Entities |-> Entities,
          err |-> NoError]
    ELSE LET preEntities == GatherPreEntities(b.Input[i], outputs[i])
             aggregated == Aggregate(b.Input[i], preEntities)
         IN  IF aggregated.err # NoError
             THEN [called |-> TRUE, hasResult |-> FALSE, Entities |-> <<>>,
                   err |-> aggregated.err]
             ELSE PostprocessFrom(b, outputs, i + 1,
                    [Entities EXCEPT
                        ![i] = FilterEntities(aggregated.entities)])

\* Postprocess, lines 154-216.
Postprocess(b) ==
    PostprocessFrom(b, Deflatten(b, 1, DeflattenStart(b)), 1,
                    [i \in DOMAIN b.Input |-> <<>>])

\* The logits the model can produce for one token: one value per class.
LogitVectors ==
    {v \in [1..OutputDim -> 0..MaxLogit] : \E k \in 1..OutputDim : v[k] = MaxLogit}

\* Forward, lines 323-357, for the call followed: on success the output
\* tensor holds len(Input) x MaxSequence x OutputDim values (lines 333, 349)
\* and the call is counted; on failure RunPipeline returns the error
\* (lines 366-368) and Postprocess is not called.
ForwardBatch ==
    /\ stage = "preprocessed"
    /\ \/ /\ \E rows \in [1..(Len(batch.Input) * batch.MaxSequence) -> LogitVectors] :
               batch' = [batch EXCEPT !.OutputTensor = FlattenRows(rows)]
          /\ \E elapsed \in 1..MaxElapsed :
               PipelineTimings' =
                 [NumCalls |-> AtomicAddUint64(PipelineTimings.NumCalls, 1),
                  TotalNS |-> AtomicAddUint64(PipelineTimings.TotalNS, elapsed)]
          /\ stage' = "forwarded"
          /\ UNCHANGED post
       \/ /\ stage' = "returned"
          /\ post' = [post EXCEPT !.err = Err("Forward", 0)]
          /\ UNCHANGED <<batch, PipelineTimings>>
    /\ UNCHANGED <<InputsMeta, TokenizerTimings, callerVars, tokenizerOut,
                   options, IdLabelMap, AggregationStrategy, IgnoreLabels,
                   construction, group>>

\* RunPipeline that calls Postprocess also after Forward returned an error.
PostprocessBatchAfterError ==
    /\ stage = "forwarded" \/ (stage = "returned" /\ ~post.called)
    /\ post' = Postprocess(batch)
    /\ stage' = "returned"
    /\ UNCHANGED <<InputsMeta, TokenizerTimings, PipelineTimings, callerVars,
                   tokenizerOut, batch,
                   options, IdLabelMap, AggregationStrategy, IgnoreLabels,
                   construction, group>>

\* RunPipeline, line 369: Postprocess on the batch Forward returned.
PostprocessBatch ==
    /\ stage = "forwarded"
    /\ post' = Postprocess(batch)
    /\ stage' = "returned"
    /\ UNCHANGED <<InputsMeta, TokenizerTimings, PipelineTimings, callerVars,
                   tokenizerOut, batch,
                   options, IdLabelMap, AggregationStrategy, IgnoreLabels,
                   construction, group>>

\* Encodings whose first token may be a special token; the attention mask is
\* all ones, or zero at the last token.
PostEncodings ==
    UNION {{PlainEncoding(n, 0, [j \in 1..n |-> IF j <= k THEN 1 ELSE 0],
                          [j \in 1..n |-> IF j <= s THEN 1 ELSE 0]) :
              k \in {n, Max({0, n - 1})},
              s \in 0..(IF n = 0 THEN 0 ELSE 1)} :
           n \in 0..MaxTokens}

InitPost ==
    /\ ReadyPipeline
    /\ InputsMeta = <<"input_ids">>
    /\ \E opts \in OptionChoices, labels \in LabelMaps :
         Configured(opts, labels)
    /\ stage = "inputs"
    /\ tokenizerOut \in BatchesOf(PostEncodings, 1..MaxBatch)
    /\ batch = NoBatch

NextPost == PreprocessBatch \/ ForwardBatch \/ PostprocessBatch

SpecPost == InitPost /\ [][NextPost]_vars

\* ---------------------------------------------------------- construction
\* The .onnx files util.FileSystem.Walk can find under the model path, as
\* getOnnxFiles returns them: <<directory, file name>> pairs.
OnnxCandidates ==
    {<<"model", "a.onnx">>, <<"model", "b.onnx">>, <<"model/sub", "a.onnx">>}

OnnxListings ==
    UNION {InjectiveSeqs(OnnxCandidates, n) : n \in 0..MaxOnnxFiles}

\* config.OnnxFilename: not set, the name of a candidate, or another name.
OnnxFilenames == {"", "a.onnx", "c.onnx"}

\* OutputsMeta[0].Dimensions of the model: -1 is a dynamic dimension.
OutputDimensions ==
    {<<-1, -1>>} \cup {<<-1, -1, d>> : d \in (-1)..MaxOutputDim}

\* The id2label maps config.json can hold: those of LabelMaps, or none.
ConfigLabelMaps == LabelMaps \cup {<<>>}

\* The calls of loadModel that can fail, in the order it makes them.
LoadFailures ==
    {"none", "ReadFileBytes tokenizer.json", "tokenizers.FromBytes",
     "FileSystem.Walk", "ReadFileBytes onnx",
     "GetInputOutputInfoWithONNXData", "NewDynamicAdvancedSessionWithONNXData"}

\* loadModel with the first candidate taken when OnnxFilename names none.
SelectModelFileFirst(onnxFiles, OnnxFilename) ==
    IF Len(onnxFiles) = 0
    THEN [err |-> Err("no .onnx file detected", 0), modelOnnxFile |-> <<>>]
    ELSE LET matches == {i \in DOMAIN onnxFiles :
                            onnxFiles[i][2] = OnnxFilename}
         IN  [err |-> NoError,
              modelOnnxFile |->
                 IF matches = {} THEN onnxFiles[1]
                 ELSE onnxFiles[Max(matches)]]

\* loadModel, lines 177-202: the model file among the .onnx files found.
\* The loop of lines 190-195 does not break: the last match is kept.
SelectModelFile(onnxFiles, OnnxFilename) ==
    IF Len(onnxFiles) = 0
    THEN [err |-> Err("no .onnx file detected", 0), modelOnnxFile |-> <<>>]
    ELSE IF Len(onnxFiles) > 1
    THEN IF OnnxFilename = ""
         THEN [err |-> Err("multiple .onnx file detected and no OnnxFilename specified", 0),
               modelOnnxFile |-> <<>>]
         ELSE LET matches == {i \in DOMAIN onnxFiles :
                                 onnxFiles[i][2] = OnnxFilename}
              IN  IF matches = {}
                  THEN [err |-> Err("file not found", 0),
                        modelOnnxFile |-> <<>>]
                  ELSE [err |-> NoError,
                        modelOnnxFile |-> onnxFiles[Max(matches)]]
    ELSE [err |-> NoError, modelOnnxFile |-> onnxFiles[1]]

\* loadModel, lines 166-244.  `failure` is the call that fails, if any;
\* onnxFiles, inputs and outputDimensions are what the file system and the
\* model hold.  tokenizer and session say whether the native handle was
\* created: neither is closed by loadModel when a later call fails.
loadModel(OnnxFilename, failure, onnxFiles, inputs, outputDimensions) ==
    LET selected == SelectModelFile(onnxFiles, OnnxFilename)
        result(err, tk, onnx, file, meta, session) ==
            [err |-> err, tokenizer |-> tk, onnxFiles |-> onnx,
             modelOnnxFile |-> file, InputsMeta |-> meta.inputs,
             OutputsMeta |-> meta.outputs, session |-> session]
        none == [inputs |-> <<>>, outputs |-> <<>>]
        read == [inputs |-> inputs, outputs |-> outputDimensions]
    IN  IF failure = "ReadFileBytes tokenizer.json"
        THEN result(Err(failure, 0), FALSE, <<>>, <<>>, none, FALSE)
        ELSE IF failure = "tokenizers.FromBytes"
        THEN result(Err(failure, 0), FALSE, <<>>, <<>>, none, FALSE)
        ELSE IF failure = "FileSystem.Walk"
        THEN result(Err(failure, 0), TRUE, <<>>, <<>>, none, FALSE)
        ELSE IF selected.err # NoError
        THEN result(selected.err, TRUE, onnxFiles, <<>>, none, FALSE)
        ELSE IF failure = "ReadFileBytes onnx"
        THEN result(Err(failure, 0), TRUE, onnxFiles,
                    selected.modelOnnxFile, none, FALSE)
        ELSE IF failure = "GetInputOutputInfoWithONNXData"
        THEN result(Err(failure, 0), TRUE, onnxFiles,
                    selected.modelOnnxFile, none, FALSE)
        ELSE IF failure = "NewDynamicAdvancedSessionWithONNXData"
        THEN result(Err(failure, 0), TRUE, onnxFiles,
                    selected.modelOnnxFile, read, FALSE)
        ELSE result(NoError, TRUE, onnxFiles, selected.modelOnnxFile,
                    read, TRUE)

\* Validate that returns at the first violated check.
ValidateFirstOnly(outputDim, idLabelMap) ==
    LET size == Cardinality(DOMAIN idLabelMap)
    IN  IF outputDim <= 0
        THEN Err("outputDim parameter must be greater than zero", 0)
        ELSE IF size <= 0
        THEN Err("length of id2label map must be greater than zero", 0)
        ELSE IF size # outputDim
        THEN Err("length of id2label map does not match model output dimension", 0)
        ELSE NoError

\* Validate, lines 138-151: errors.Join of the errors appended.
Validate(outputDim, idLabelMap) ==
    LET size == Cardinality(DOMAIN idLabelMap)
    IN  ErrorsJoin(
          IF outputDim <= 0
          THEN Err("outputDim parameter must be greater than zero", 0)
          ELSE NoError,
          ErrorsJoin(
            IF size <= 0
            THEN Err("length of id2label map must be greater than zero", 0)
            ELSE NoError,
            IF size # outputDim
            THEN Err("length of id2label map does not match model output dimension", 0)
            ELSE NoError))

\* loadModel has not been called.
NoLoad ==
    [err |-> NoError, tokenizer |-> FALSE, onnxFiles |-> <<>>,
     modelOnnxFile |-> <<>>, InputsMeta |-> <<>>, OutputsMeta |-> <<>>,
     session |-> FALSE]

\* The call NewTokenClassificationPipeline(config, ortOptions) at its start:
\* `step` is the last part of the function that has run, `pipeline` says
\* whether a pipeline (not nil) was returned and `ret` is the error returned.
ConstructionStart(OnnxFilename) ==
    [step |-> "called", OnnxFilename |-> OnnxFilename, loaded |-> FALSE,
     load |-> NoLoad, OutputDim |-> 0, pipeline |-> FALSE, ret |-> NoError]

\* NewTokenClassificationPipeline, lines 78-85: the options are applied to
\* the zero pipeline.
NewApplyOptions ==
    /\ construction.step = "called"
    /\ AggregationStrategy' = options.AggregationStrategy
    /\ IgnoreLabels' = options.IgnoreLabels
    /\ construction' = [construction EXCEPT !.step = "options"]
    /\ UNCHANGED <<InputsMeta, TokenizerTimings, PipelineTimings, callerVars,
                   dataVars, options, IdLabelMap, post, group>>

\* NewTokenClassificationPipeline, lines 96-108: config.json is read and
\* parsed; either can fail.
NewReadConfig ==
    /\ construction.step = "options"
    /\ \/ \E failure \in {"ReadFileBytes config.json", "jsoniter.Unmarshal"} :
            /\ construction' = [construction EXCEPT !.step = "returned",
                                                    !.ret = Err(failure, 0)]
            /\ UNCHANGED IdLabelMap
       \/ \E labels \in ConfigLabelMaps :
            /\ IdLabelMap' = labels
            /\ construction' = [construction EXCEPT !.step = "config"]
    /\ UNCHANGED <<InputsMeta, TokenizerTimings, PipelineTimings, callerVars,
                   dataVars, options, AggregationStrategy, IgnoreLabels,
                   post, group>>

\* NewTokenClassificationPipeline, lines 110-120: the timings and the
\* defaults.
NewDefaults ==
    /\ construction.step = "config"
    /\ TokenizerTimings' = ZeroTimings
    /\ PipelineTimings' = ZeroTimings
    /\ AggregationStrategy' = DefaultAggregationStrategy(AggregationStrategy)
    /\ IgnoreLabels' = DefaultIgnoreLabels(IgnoreLabels)
    /\ construction' = [construction EXCEPT !.step = "defaults"]
    /\ UNCHANGED <<InputsMeta, callerVars, dataVars, options, IdLabelMap,
                   post, group>>

\* NewTokenClassificationPipeline, lines 122-126: loadModel, and the return
\* of its error.
NewLoadModel ==
    /\ construction.step = "defaults"
    /\ \E failure \in LoadFailures, onnxFiles \in OnnxListings,
          inputs \in InputsMetaChoices, dimensions \in OutputDimensions :
         LET load == loadModel(construction.OnnxFilename, failure, onnxFiles,
                               inputs, dimensions)
         IN  /\ construction' =
                   [construction EXCEPT
                      !.step = IF load.err # NoError THEN "returned"
                               ELSE "loaded",
                      !.loaded = TRUE,
                      !.load = load,
                      !.ret = load.err]
             /\ InputsMeta' = load.InputsMeta
             /\ handles' =
                   [tokenizer |-> IF load.tokenizer THEN "open" ELSE "none",
                    session |-> IF load.session THEN "open" ELSE "none"]
    /\ UNCHANGED <<TokenizerTimings, PipelineTimings, pc, inputTensors,
                   lastForward, runsStarted, forwardReturnedOk, destroyCall,
                   dataVars, options, IdLabelMap, AggregationStrategy,
                   IgnoreLabels, post, group>>

\* NewTokenClassificationPipeline, lines 128-135: OutputDim is read from the
\* third dimension of the first output (an index out of range panics when
\* there are fewer), then Validate decides between the pipeline and its
\* error.
NewValidate ==
    /\ construction.step = "loaded"
    /\ LET dimensions == construction.load.OutputsMeta
       IN  IF Len(dimensions) < 3
           THEN construction' = [construction EXCEPT !.step = "panicked"]
           ELSE LET err == Validate(dimensions[3], IdLabelMap)
                IN  construction' =
                       [construction EXCEPT !.step = "returned",
                                            !.OutputDim = dimensions[3],
                                            !.pipeline = (err = NoError),
                                            !.ret = err]
    /\ UNCHANGED <<InputsMeta, TokenizerTimings, PipelineTimings, callerVars,
                   dataVars, options, IdLabelMap, AggregationStrategy,
                   IgnoreLabels, post, group>>

\* A call of NewTokenClassificationPipeline with a configuration: nothing
\* of the pipeline exists yet.
InitNew ==
    /\ options \in OptionChoices
    /\ \E name \in OnnxFilenames : construction = ConstructionStart(name)
    /\ AggregationStrategy = ""
    /\ IgnoreLabels = <<>>
    /\ IdLabelMap = <<>>
    /\ InputsMeta = <<>>
    /\ handles = [tokenizer |-> "none", session |-> "none"]
    /\ TokenizerTimings = ZeroTimings
    /\ PipelineTimings = ZeroTimings
    /\ destroyCall = NoDestroy
    /\ pc = [c \in Callers |-> "idle"]
    /\ inputTensors = [c \in Callers |-> <<>>]
    /\ lastForward = NoForward
    /\ runsStarted = 0
    /\ forwardReturnedOk = 0
    /\ stage = "off"
    /\ tokenizerOut = <<>>
    /\ batch = NoBatch
    /\ post = NoPost
    /\ group = NoGroup

NextNew ==
    \/ NewApplyOptions
    \/ NewReadConfig
    \/ NewDefaults
    \/ NewLoadModel
    \/ NewValidate

SpecNew == InitNew /\ [][NextNew]_vars

\* ----------------------------------------------------------- GroupEntities
LabelBL == <<"B", "-", "L">>
LabelXY == <<"X", "-", "Y">>

\* The labels a label map can give the tokens of an input.
GroupLabels == {LabelBP, LabelIP, LabelO, LabelBL, LabelP, LabelXY}

\* What Aggregate passes to GroupEntities (lines 265-273) for tokens
\* labelled `labels`: token k has id k, index k - 1 and the offsets
\* [k - 1, k).
AggregatedEntities(labels) ==
    [k \in DOMAIN labels |->
        Entity(labels[k], <<1, k + 1>>, <<>>, k - 1, TokenString(k), k,
               k - 1, k, FALSE)]

EntitySequences ==
    UNION {{AggregatedEntities(labels) : labels \in [1..n -> GroupLabels]} :
           n \in 0..MaxEntities}

\* Aggregate, line 281: one call of GroupEntities.
GroupEntitiesCall ==
    /\ ~group.called
    /\ group' = [group EXCEPT !.called = TRUE,
                              !.entityGroups = GroupEntities(group.entities)]
    /\ UNCHANGED <<InputsMeta, TokenizerTimings, PipelineTimings, callerVars,
                   dataVars, options, IdLabelMap, AggregationStrategy,
                   IgnoreLabels, post, construction>>

InitGroup ==
    /\ ReadyPipeline
    /\ InputsMeta = <<"input_ids">>
    /\ options = NoOptions
    /\ IdLabelMap = (0 :> LabelO @@ 1 :> LabelBP)
    /\ AggregationStrategy = DefaultAggregationStrategy("")
    /\ IgnoreLabels = DefaultIgnoreLabels(<<>>)
    /\ post = NoPost
    /\ construction = NoConstruction
    /\ \E entities \in EntitySequences :
         group = [NoGroup EXCEPT !.entities = entities]
    /\ stage = "off"
    /\ tokenizerOut = <<>>
    /\ batch = NoBatch

NextGroup == GroupEntitiesCall

SpecGroup == InitGroup /\ [][NextGroup]_vars

\* ================================================================ claims
ForwardReturned == lastForward.exit \in
    {"input_alloc_error", "output_alloc_error", "run_error", "success"}

\* C1: whichever way Forward returns, every tensor it created has had
\* Destroy called on it by then.
C1_ForwardReleasesEveryTensor ==
    ForwardReturned => lastForward.created \subseteq lastForward.destroyed

\* C2: when the tokenizer close and the session destroy both fail, the error
\* Destroy returns reports both failures.
C2_DestroyReportsBothFailures ==
    (/\ destroyCall.called
     /\ destroyCall.tokenizerClose = "failed"
     /\ destroyCall.sessionDestroy = "failed")
    => /\ Err("Tokenizer.Close", 0) \subseteq destroyCall.ret
       /\ Err("OrtSession.Destroy", 0) \subseteq destroyCall.ret

\* C3: every Destroy call attempts both releases (the session is destroyed
\* also when the tokenizer failed to close), and it returns a non-nil error
\* whenever at least one of the two failed.
C3_DestroyAttemptsBoth ==
    destroyCall.called =>
       /\ destroyCall.tokenizerClose \in {"ok", "failed"}
       /\ destroyCall.sessionDestroy \in {"ok", "failed"}
       /\ ("failed" \in {destroyCall.tokenizerClose, destroyCall.sessionDestroy}
             => destroyCall.ret # NoError)
       /\ (destroyCall.ret # NoError
             => "failed" \in {destroyCall.tokenizerClose,
                              destroyCall.sessionDestroy})

C3_Witness ==
    /\ destroyCall.called
    /\ destroyCall.tokenizerClose = "failed"
    /\ destroyCall.sessionDestroy = "ok"
    /\ destroyCall.ret = Err("Tokenizer.Close", 0)

\* C4: an error returned by a tensor's Destroy in Forward is part of the
\* error Forward returns, joined with the primary error, on the success path
\* and on the inference-failure path.
C4_ForwardReportsReleaseErrors ==
    lastForward.exit \in {"success", "run_error"} =>
       /\ lastForward.releaseErrors \subseteq lastForward.ret
       /\ (lastForward.exit = "run_error"
             => Err("Run", 0) \subseteq lastForward.ret)

\* C5: at every point of every interleaving of Preprocess calls the
\* tokenization call count is the number of calls that have executed their
\* add (so N after N calls: no increment is lost), and a call that is about
\* to add can always do so, whatever the other callers are doing.
C5_TokenizerCallCount ==
    /\ TokenizerTimings.NumCalls =
          runsStarted - Cardinality({c \in Callers : pc[c] = "pre_count"})
    /\ \A c \in Callers :
          pc[c] = "pre_count" => ENABLED PreprocessCountCalls(c)

C5_Witness ==
    /\ \A c \in Callers : pc[c] = "pre_ns"
    /\ TokenizerTimings.NumCalls = NumCallers

\* C6: the inference call count is the number of Forward calls that
\* returned successfully (plus those between their add and their return); a
\* step in which a Forward call fails leaves both inference counters as they
\* were; the counters never decrease.
C6_InferenceCount ==
    PipelineTimings.NumCalls =
       forwardReturnedOk + Cardinality({c \in Callers : pc[c] = "fwd_ns"})

C6_InferenceStep ==
    /\ PipelineTimings'.NumCalls >= PipelineTimings.NumCalls
    /\ PipelineTimings'.TotalNS >= PipelineTimings.TotalNS
    /\ (/\ lastForward' # lastForward
        /\ lastForward'.exit \in {"input_alloc_error", "output_alloc_error",
                                  "run_error", "panic"})
       => PipelineTimings' = PipelineTimings
    /\ (/\ lastForward' # lastForward
        /\ lastForward'.exit = "success")
       => /\ lastForward'.ret = NoError
          /\ forwardReturnedOk' = forwardReturnedOk + 1

C6_InferenceCountsSuccessesOnly ==
    []C6_InferenceCount /\ [][C6_InferenceStep]_vars

C6_Witness ==
    /\ lastForward.exit = "run_error"
    /\ forwardReturnedOk = 1
    /\ PipelineTimings.NumCalls = 1
    /\ \A c \in Callers : pc[c] # "fwd_ns"

\* ------------------------------------------------------- C7, C8 (SpecPre)
\* Position (i, j) of a flat (batchSize, maxSequence) tensor; j from 0.
At(tensor, i, j) == tensor[(i - 1) * batch.MaxSequence + j + 1]

TrueLength(i) == Len(tokenizerOut[i].IDs)

RowsPadded(tensor, values(_), copied) ==
    /\ Len(tensor) = Len(tokenizerOut) * batch.MaxSequence
    /\ \A i \in 1..Len(tokenizerOut) : \A j \in 0..(batch.MaxSequence - 1) :
          At(tensor, i, j) =
             IF j < TrueLength(i) /\ copied THEN values(i)[j + 1] ELSE 0

IdsOf(i) == tokenizerOut[i].IDs
TypeIdsOf(i) == tokenizerOut[i].TypeIDs
AttentionMaskOf(i) == tokenizerOut[i].AttentionMask

\* C7 as claimed: each of the three tensors has length batchSize x
\* maxSequence and, in every row, holds the tokenizer's value at the
\* positions below the input's token count and zero from there on.
C7_PaddingAllTensors ==
    stage = "preprocessed" =>
       /\ RowsPadded(batch.IdsTensor, IdsOf, TRUE)
       /\ RowsPadded(batch.TypeIdsTensor, TypeIdsOf, TRUE)
       /\ RowsPadded(batch.AttentionMasksTensor, AttentionMaskOf, TRUE)

\* C7 amended: the same, except that the type-ids tensor (attention-mask
\* tensor) holds the tokenizer's values only when the model declares a
\* token_type_ids (attention_mask) input, and is all zero otherwise.
C7_PaddingDeclaredTensors ==
    stage = "preprocessed" =>
       /\ RowsPadded(batch.IdsTensor, IdsOf, TRUE)
       /\ RowsPadded(batch.TypeIdsTensor, TypeIdsOf, hasTokenTypeIds)
       /\ RowsPadded(batch.AttentionMasksTensor, AttentionMaskOf,
                     hasAttentionMask)

\* Two inputs of different lengths, so that one row is padded, with non-zero
\* type ids, for a model declaring type ids and no attention mask.
C7_Witness ==
    /\ stage = "preprocessed"
    /\ Len(tokenizerOut) = 2
    /\ TrueLength(1) = 2 /\ TrueLength(2) = 1
    /\ batch.MaxSequence = 2
    /\ hasTokenTypeIds /\ ~hasAttentionMask
    /\ batch.TypeIdsTensor = <<1, 1, 1, 0>>
    /\ batch.AttentionMasksTensor = <<0, 0, 0, 0>>

\* The index (from 0) of the last non-zero entry of each input's attention
\* mask, for the inputs that have one.
LastNonZeroIndices ==
    {Max({j \in 1..Len(AttentionMaskOf(i)) : AttentionMaskOf(i)[j] # 0}) - 1 :
        i \in {k \in 1..Len(tokenizerOut) :
                 \E j \in 1..Len(AttentionMaskOf(k)) : AttentionMaskOf(k)[j] # 0}}

\* C8: MaxSequence is one more than the largest, over the inputs of the
\* batch, of the index of the input's last non-zero attention-mask entry.
C8_MaxSequence ==
    (stage = "preprocessed" /\ LastNonZeroIndices # {}) =>
       batch.MaxSequence = 1 + Max(LastNonZeroIndices)

\* The maximum is decided by the first input, whose mask ends in padding.
C8_Witness ==
    /\ stage = "preprocessed"
    /\ Len(tokenizerOut) = 2
    /\ AttentionMaskOf(1) = <<1, 0>>
    /\ AttentionMaskOf(2) = <<0>>
    /\ batch.MaxSequence = 1

\* ---------------------------------------------------------------- C9, C10
PostprocessReturned == stage = "returned" /\ post.called

\* The ignore-label set the caller configured: {"O"} when none was given.
ConfiguredIgnoreLabels ==
    IF options.IgnoreLabels = <<>> THEN {LabelO}
    ELSE Range(options.IgnoreLabels)

ReturnedLabels ==
    UNION {{post.Entities[i][k].Entity : k \in DOMAIN post.Entities[i]} :
              i \in DOMAIN post.Entities}

\* C9: under NONE and under SIMPLE, no Entity in the result of Postprocess
\* has the empty label or a label of the configured ignore-label set, which
\* is {"O"} when no ignore labels were configured.
C9_NoIgnoredLabel ==
    (PostprocessReturned /\ post.hasResult) =>
        /\ AggregationStrategy \in {"NONE", "SIMPLE"}
        /\ \A label \in ReturnedLabels :
              label # <<>> /\ label \notin ConfiguredIgnoreLabels

\* The entity lists Postprocess works out for input i before the filter.
AggregatedOf(i) ==
    LET outputs == Deflatten(batch, 1, DeflattenStart(batch))
    IN  Aggregate(batch.Input[i], GatherPreEntities(batch.Input[i], outputs[i]))

\* SIMPLE mode, default ignore labels: two tokens labelled P and B-O were
\* merged into the entities P and O, and only P is returned.
C9_Witness ==
    /\ PostprocessReturned /\ post.hasResult
    /\ AggregationStrategy = "SIMPLE"
    /\ options.IgnoreLabels = <<>>
    /\ \E i \in DOMAIN post.Entities :
          /\ Len(post.Entities[i]) = 1
          /\ post.Entities[i][1].Entity = LabelP
          /\ Len(AggregatedOf(i).entities) = 2
          /\ AggregatedOf(i).entities[2].Entity = LabelO

\* The logits of token j of input i in the flat output tensor.
Chunk(i, j) ==
    LET base == ((i - 1) * batch.MaxSequence + (j - 1)) * OutputDim
    IN  [k \in 1..OutputDim |-> batch.OutputTensor[base + k]]

\* The class index, from 0, of the first largest logit.
FirstLargest(logits) ==
    (CHOOSE k \in DOMAIN logits :
        /\ \A m \in DOMAIN logits : logits[m] <= logits[k]
        /\ \A m \in 1..(k - 1) : logits[m] < logits[k]) - 1

\* The inputs with a real, non-special token whose argmax class index has
\* no entry in the label map.
InputsWithUnknownClass ==
    {i \in DOMAIN batch.Input :
        \E j \in DOMAIN batch.Input[i].TokenIds :
            /\ j <= batch.MaxSequence
            /\ batch.Input[i].SpecialTokensMask[j] = 0
            /\ FirstLargest(Chunk(i, j)) \notin DOMAIN IdLabelMap}

\* C10: when the argmax class index of a token of any input has no entry
\* in the label map, Postprocess returns an error naming that input and
\* index and no result: no entity list of an earlier input, no default
\* label.
C10_LookupFailureAborts ==
    (/\ PostprocessReturned
     /\ AggregationStrategy \in {"NONE", "SIMPLE"}
     /\ InputsWithUnknownClass # {}) =>
        /\ ~post.hasResult
        /\ post.Entities = <<>>
        /\ \E i \in InputsWithUnknownClass :
              \E idx \in (0..(OutputDim - 1)) \ DOMAIN IdLabelMap :
                  post.err = LookupError(batch.Input[i].Raw, idx)

\* The lookup fails for the second input after the first one had produced
\* a non-empty entity list.
C10_Witness ==
    /\ PostprocessReturned
    /\ ~post.hasResult /\ post.err # NoError
    /\ InputsWithUnknownClass = {2}
    /\ AggregatedOf(1).err = NoError
    /\ FilterEntities(AggregatedOf(1).entities) # <<>>

\* ---------------------------------------------------------------- C11-C13
ConstructionReturned == construction.step = "returned"

\* C11: a configuration that requests an aggregation strategy other than
\* NONE or SIMPLE is rejected by NewTokenClassificationPipeline: it returns
\* an error and no pipeline.
C11_UnsupportedStrategyRejected ==
    (/\ ConstructionReturned
     /\ options.AggregationStrategy \notin {"", "NONE", "SIMPLE"})
    => /\ ~construction.pipeline
       /\ construction.ret # NoError

DiscoveredNames ==
    {construction.load.onnxFiles[i][2] :
        i \in DOMAIN construction.load.onnxFiles}

\* C12: with more than one .onnx file discovered, loadModel succeeds only
\* when OnnxFilename is set and is the name of a discovered file, and the
\* file it loads has that name; with no OnnxFilename, or one that names no
\* discovered file, it fails and creates no session.  With no .onnx file
\* discovered it fails.
C12_ModelFileSelection ==
    construction.loaded =>
        LET load == construction.load
            selector == construction.OnnxFilename
        IN  /\ (Len(load.onnxFiles) > 1 /\ load.err = NoError)
                  => /\ selector # ""
                     /\ selector \in DiscoveredNames
                     /\ load.modelOnnxFile[2] = selector
            /\ (Len(load.onnxFiles) > 1
                   /\ (selector = "" \/ selector \notin DiscoveredNames))
                  => /\ load.err # NoError
                     /\ ~load.session
                     /\ handles.session = "none"
            /\ Len(load.onnxFiles) = 0
                  => /\ load.err # NoError
                     /\ handles.session = "none"

\* Two files discovered, the configured name is that of one of them, and
\* the session was created.
C12_Witness ==
    /\ construction.loaded
    /\ Len(construction.load.onnxFiles) = 2
    /\ construction.OnnxFilename = "a.onnx"
    /\ construction.load.modelOnnxFile = <<"model", "a.onnx">>
    /\ construction.load.err = NoError
    /\ handles.session = "open"

ValidateRan ==
    /\ ConstructionReturned
    /\ construction.loaded
    /\ construction.load.err = NoError

\* C13: for every output dimension and label-map size, the error Validate
\* returns has one entry for each violated check (output dimension not
\* positive, label map empty, label-map size different from the output
\* dimension) and no other, so it is nil exactly when no check is violated.
C13_ValidateReportsAll ==
    ValidateRan =>
        LET d == construction.OutputDim
            n == Cardinality(DOMAIN IdLabelMap)
            ret == construction.ret
        IN  /\ d <= 0
                <=> Err("outputDim parameter must be greater than zero", 0)
                      \subseteq ret
            /\ n <= 0
                <=> Err("length of id2label map must be greater than zero", 0)
                      \subseteq ret
            /\ n # d
                <=> Err("length of id2label map does not match model output dimension", 0)
                      \subseteq ret
            /\ Cardinality(ret) <= 3
            /\ (ret = NoError) <=> (d > 0 /\ n > 0 /\ n = d)
            /\ construction.pipeline <=> (ret = NoError)

\* The three checks are violated together and all three are reported.
C13_Witness ==
    /\ ValidateRan
    /\ construction.OutputDim = -1
    /\ IdLabelMap = <<>>
    /\ Cardinality(construction.ret) = 3

\* ---------------------------------------------------------------- C14
\* The declared inputs whose ort.NewTensor call failed in the Forward call
\* recorded: the name is one getInputTensors creates a tensor for, and the
\* tensor is nil.
FailedInputAllocations ==
    {i \in DOMAIN lastForward.inputTensors :
        /\ InputsMeta[i] \in KnownInputNames
        /\ ~lastForward.inputTensors[i]}

\* C14: when creating the tensor of any declared input fails, whatever its
\* position, Forward returns that error and does not invoke the session.
C14_InputAllocFailurePropagated ==
    (lastForward.exit # "none" /\ FailedInputAllocations # {}) =>
        /\ lastForward.exit = "input_alloc_error"
        /\ \E i \in FailedInputAllocations :
              lastForward.ret = Err("NewTensor", i)
        /\ ~lastForward.sessionRun

\* ---------------------------------------------------------------- C15-C17
\* The batch that holds input i alone, with its part of the output tensor.
SingleInputBatch(i) ==
    LET size == batch.MaxSequence * OutputDim
    IN  [batch EXCEPT
           !.Input = <<batch.Input[i]>>,
           !.OutputTensor =
               SubSeq(batch.OutputTensor, (i - 1) * size + 1, i * size)]

\* C15: the result of Postprocess has one entity list per input of the
\* batch, and the list at position i is what Postprocess returns for input
\* i alone with input i's part of the output tensor.
C15_OneListPerInput ==
    (PostprocessReturned /\ post.hasResult) =>
        /\ Len(post.Entities) = Len(batch.Input)
        /\ \A i \in DOMAIN batch.Input :
              LET alone == Postprocess(SingleInputBatch(i))
              IN  /\ alone.hasResult
                  /\ post.Entities[i] = alone.Entities[1]

\* Two inputs of different token counts, each with an entity returned.
C15_Witness ==
    /\ PostprocessReturned /\ post.hasResult
    /\ Len(batch.Input) = 2
    /\ Len(batch.Input[1].TokenIds) = 1
    /\ Len(batch.Input[2].TokenIds) = 2
    /\ Len(post.Entities[1]) = 1
    /\ Len(post.Entities[2]) = 2

C16_Order ==
    /\ post.called =>
          /\ stage = "returned"
          /\ TokenizerTimings.NumCalls = 1
          /\ PipelineTimings.NumCalls = 1
          /\ Len(batch.OutputTensor) =
                Len(batch.Input) * batch.MaxSequence * OutputDim
    /\ (stage = "returned" /\ ~post.called) =>
          /\ post.err = Err("Forward", 0)
          /\ ~post.hasResult
          /\ post.Entities = <<>>
          /\ PipelineTimings.NumCalls = 0

C16_Step ==
    /\ stage' # stage =>
          <<stage, stage'>> \in
             {<<"inputs", "preprocessed">>, <<"preprocessed", "forwarded">>,
              <<"preprocessed", "returned">>, <<"forwarded", "returned">>}
    /\ (post'.called /\ ~post.called) => stage = "forwarded"
    /\ (stage = "preprocessed" /\ stage' = "returned") =>
          /\ ~post'.called
          /\ post'.err # NoError

\* C16: a Run call goes through Preprocess, Forward and Postprocess in that
\* order; Postprocess is called only on the batch of a Forward that
\* succeeded, and when Forward fails Run returns its error, no result, and
\* Postprocess is never called.
C16_RunShortCircuits == []C16_Order /\ [][C16_Step]_vars

C16_Witness ==
    /\ stage = "returned"
    /\ ~post.called
    /\ post.err = Err("Forward", 0)
    /\ TokenizerTimings.NumCalls = 1

\* `outputs` of Postprocess after the loop of lines 168-193.
DeflattenedOutputs == Deflatten(batch, 1, DeflattenStart(batch))

Min(a, b) == IF a <= b THEN a ELSE b

PrefixOf(label) ==
    IF Len(label) >= 2 /\ label[1] = "B" /\ label[2] = "-" THEN "B" ELSE "I"

BareTagOf(label) ==
    IF Len(label) >= 2 /\ label[1] \in {"B", "I"} /\ label[2] = "-"
    THEN [k \in 1..(Len(label) - 2) |-> label[k + 2]]
    ELSE label

\* The positions of group.entities that start a group under the rule: the
\* first entity, and every entity that does not have both the tag of the
\* entity before it and a prefix other than B.
GroupStarts ==
    {k \in DOMAIN group.entities :
        \/ k = 1
        \/ ~(/\ BareTagOf(group.entities[k].Entity)
                  = BareTagOf(group.entities[k - 1].Entity)
             /\ PrefixOf(group.entities[k].Entity) # "B")}

\* The first and the last position of the m-th group under the rule.
FirstOf(m) ==
    CHOOSE s \in GroupStarts :
        Cardinality({t \in GroupStarts : t < s}) = m - 1

LastOf(m) ==
    IF m = Cardinality(GroupStarts) THEN Len(group.entities)
    ELSE FirstOf(m + 1) - 1

InputLabels == [k \in DOMAIN group.entities |-> group.entities[k].Entity]

GroupSpans ==
    [m \in DOMAIN group.entityGroups |->
        <<group.entityGroups[m].Start, group.entityGroups[m].End>>]

\* C18: GroupEntities appends an entity to the open group exactly when its
\* bare tag is the group's and its prefix is not B, and otherwise closes the
\* group and starts a new one with it: the groups are the runs between the
\* starts of the rule.  [B-P, I-P, O, B-L] gives three groups (tokens 0-1,
\* token 2, token 3) and [B-P, B-P] two.
C18_GroupingRule ==
    group.called =>
        /\ Len(group.entityGroups) = Cardinality(GroupStarts)
        /\ \A m \in DOMAIN group.entityGroups :
              GroupSpans[m] = <<FirstOf(m) - 1, LastOf(m)>>
        /\ InputLabels = <<LabelBP, LabelIP, LabelO, LabelBL>>
              => GroupSpans = <<<<0, 2>>, <<2, 3>>, <<3, 4>>>>
        /\ InputLabels = <<LabelBP, LabelBP>>
              => GroupSpans = <<<<0, 1>>, <<1, 2>>>>

C18_Witness ==
    /\ group.called
    /\ InputLabels = <<LabelBP, LabelIP, LabelO, LabelBL>>
    /\ Len(group.entityGroups) = 3
    /\ group.entityGroups[1].End = 2

\* C19: the label of every merged entity is the bare tag of its group, the
\* tag the grouping comparison computes: the label without a leading B- or
\* I-, and the whole label when it has neither, a hyphen elsewhere included.
C19_MergedLabelIsBareTag ==
    group.called =>
        /\ Len(group.entityGroups) = Cardinality(GroupStarts)
        /\ \A m \in DOMAIN group.entityGroups :
              group.entityGroups[m].Entity
                 = BareTagOf(group.entities[FirstOf(m)].Entity)

\* C20: the Start of every merged entity is its first member's, its End its
\* last member's, and its Word what Decode returns for the members' token
\* ids in member order.
C20_MergedSpanAndWord ==
    group.called =>
        /\ Len(group.entityGroups) = Cardinality(GroupStarts)
        /\ \A m \in DOMAIN group.entityGroups :
              LET members == SubSeq(group.entities, FirstOf(m), LastOf(m))
                  merged == group.entityGroups[m]
              IN  /\ merged.Start = members[1].Start
                  /\ merged.End = members[Len(members)].End
                  /\ merged.Word =
                        Decode([k \in DOMAIN members |-> members[k].TokenId])

\* Three members whose token strings are "w", "##x", "w": the word is
\* "wx w".
C20_Witness ==
    /\ group.called
    /\ InputLabels = <<LabelBP, LabelIP, LabelIP>>
    /\ Len(group.entityGroups) = 1
    /\ group.entityGroups[1].Word = <<"w", "x", " ", "w">>
    /\ group.entityGroups[1].Start = 0
    /\ group.entityGroups[1].End = 3

\* ---------------------------------------------------------------- C21, C22
\* C21: a model that declares an input name other than input_ids,
\* token_type_ids and attention_mask is rejected when it is loaded:
\* loadModel returns an error and no pipeline is returned.
C21_UnknownInputRejected ==
    (/\ construction.loaded
     /\ \E i \in DOMAIN construction.load.InputsMeta :
           construction.load.InputsMeta[i] \notin KnownInputNames)
    => /\ construction.load.err # NoError
       /\ ~construction.pipeline

\* C22: when NewTokenClassificationPipeline returns an error, no native
\* handle it acquired (tokenizer, session) is left open.
C22_FailedConstructionReleasesHandles ==
    (ConstructionReturned /\ ~construction.pipeline) =>
        /\ handles.tokenizer # "open"
        /\ handles.session # "open"

\* ---------------------------------------------------------------- C23, C24
\* What GatherPreEntities returns for input i of the batch followed.
PreEntitiesOf(i) ==
    GatherPreEntities(batch.Input[i], DeflattenedOutputs[i])

\* The positions (from 1) of input i that have a score vector and are not
\* special tokens.
OrdinaryPositions(i) ==
    {j \in DOMAIN DeflattenedOutputs[i] :
        batch.Input[i].SpecialTokensMask[j] = 0}

\* C23: GatherPreEntities returns no pre-entity for a position whose
\* special-token mask is set and exactly one for every other retained
\* position, in increasing order of position, with that position's index,
\* token id, offsets and score vector.
C23_PreEntitiesSkipSpecialTokens ==
    PostprocessReturned =>
        \A i \in DOMAIN batch.Input :
            LET pre == PreEntitiesOf(i)
                input == batch.Input[i]
            IN  /\ Len(pre) = Cardinality(OrdinaryPositions(i))
                /\ \A k \in DOMAIN pre :
                      /\ pre[k].Index + 1 \in OrdinaryPositions(i)
                      /\ k > 1 => pre[k - 1].Index < pre[k].Index
                      /\ pre[k].TokenId = input.TokenIds[pre[k].Index + 1]
                      /\ pre[k].Start = input.Offsets[pre[k].Index + 1][1]
                      /\ pre[k].End = input.Offsets[pre[k].Index + 1][2]
                      /\ pre[k].Scores = DeflattenedOutputs[i][pre[k].Index + 1]

\* The first of two tokens is a special token: one pre-entity, that of the
\* second.
C23_Witness ==
    /\ PostprocessReturned
    /\ batch.Input[1].SpecialTokensMask = <<1, 0>>
    /\ Len(DeflattenedOutputs[1]) = 2
    /\ Len(PreEntitiesOf(1)) = 1
    /\ PreEntitiesOf(1)[1].Index = 1
    /\ PreEntitiesOf(1)[1].TokenId = 2

\* C24: the groups GroupEntities emits are non-empty runs of its input, one
\* after the other from the first entity to the last, so that every entity
\* is in exactly one group and the order is kept; no entity, no group; and
\* there are never more groups than entities.  (Entity k of the input has
\* the offsets [k - 1, k), so a group's Start and End are the bounds of its
\* run.)
C24_GroupsPartitionInput ==
    group.called =>
        LET groups == group.entityGroups
            n == Len(group.entities)
        IN  /\ Len(groups) <= n
            /\ n = 0 => groups = <<>>
            /\ n > 0 => /\ Len(groups) >= 1
                        /\ groups[1].Start = 0
                        /\ groups[Len(groups)].End = n
            /\ \A m \in DOMAIN groups :
                  /\ groups[m].Start < groups[m].End
                  /\ m > 1 => groups[m].Start = groups[m - 1].End

\* Four entities in two groups of two.
C24_Witness ==
    /\ group.called
    /\ Len(group.entities) = 4
    /\ Len(group.entityGroups) = 2
    /\ group.entityGroups[1].End = 2
    /\ group.entityGroups[2].Start = 2
    /\ group.entityGroups[2].End = 4

====
